---- MODULE Spec2Model ----
(***************************************************************************)
(* Movie MiniApp backend (server.js): the unlock quota and token service.  *)
(*                                                                         *)
(* Strings are sequences of one-character strings.  Time is in             *)
(* milliseconds since the epoch, as Date.now() gives it.  The Firestore    *)
(* collections user_quota and movies are functions from document ids to    *)
(* documents; every awaited store call of a handler is one atomic step.    *)
(***************************************************************************)
EXTENDS Integers, Sequences, FiniteSets, TLC

VARIABLES now, quota, movies, pc, req, qdoc, resp, vresp, issued, checked

vars == <<now, quota, movies, pc, req, qdoc, resp, vresp, issued, checked>>

(***************************************************************************)
(* Configuration (server.js, "Config constants").                          *)
(***************************************************************************)
FREE_DAILY_LIMIT == 2

UNLOCK_TTL_SECONDS == 300

DayMs == 86400000

\* JavaScript's NaN, the result of parseInt on a string with no leading digit.
NaN == -1

\* null in a document field that otherwise holds a timestamp.
Null == -1

(***************************************************************************)
(* Characters, bytes and base64.                                           *)
(***************************************************************************)
Digits == <<"0", "1", "2", "3", "4", "5", "6", "7", "8", "9">>

HexDigits == <<"0", "1", "2", "3", "4", "5", "6", "7", "8", "9", "a", "b", "c", "d", "e", "f">>

Letters == <<"a", "b", "c", "d", "e", "f", "m", "u">>

LetterCodes == <<97, 98, 99, 100, 101, 102, 109, 117>>

\* What a byte that is no character of the modelled alphabet decodes to.
OtherChar == "?"

IsDigit(c) == \E d \in 1..10 : Digits[d] = c

DigitValue(c) == (CHOOSE d \in 1..10 : Digits[d] = c) - 1

\* The UTF-8 byte of a character (all modelled characters are ASCII).
Ord(c) ==
  IF IsDigit(c) THEN 48 + DigitValue(c)
  ELSE IF c = ":" THEN 58
  ELSE IF \E i \in 1..Len(Letters) : Letters[i] = c
       THEN LetterCodes[CHOOSE i \in 1..Len(Letters) : Letters[i] = c]
  ELSE 63

Chr(b) ==
  IF b >= 48 /\ b <= 57 THEN Digits[b - 47]
  ELSE IF b = 58 THEN ":"
  ELSE IF \E i \in 1..Len(LetterCodes) : LetterCodes[i] = b
       THEN Letters[CHOOSE i \in 1..Len(LetterCodes) : LetterCodes[i] = b]
  ELSE OtherChar

\* Buffer.from(str): the bytes of a string.
ToBytes(s) == [i \in 1..Len(s) |-> Ord(s[i])]

\* buf.toString('utf8')
FromBytes(b) == [i \in 1..Len(b) |-> Chr(b[i])]

\* The base64 padding character '=', next to the sextets 0..63.
Pad == 64

RECURSIVE Base64Encode(_)
\* buf.toString('base64'): three bytes become four sextets, the rest is padded.
Base64Encode(b) ==
  IF Len(b) = 0 THEN <<>>
  ELSE IF Len(b) = 1 THEN <<b[1] \div 4, (b[1] % 4) * 16, Pad, Pad>>
  ELSE IF Len(b) = 2
       THEN <<b[1] \div 4, (b[1] % 4) * 16 + (b[2] \div 16), (b[2] % 16) * 4, Pad>>
  ELSE <<b[1] \div 4, (b[1] % 4) * 16 + (b[2] \div 16),
         (b[2] % 16) * 4 + (b[3] \div 64), b[3] % 64>>
       \o Base64Encode(SubSeq(b, 4, Len(b)))

RECURSIVE Base64DecodeSextets(_)
Base64DecodeSextets(x) ==
  IF Len(x) < 2 THEN <<>>
  ELSE IF Len(x) = 2 THEN <<x[1] * 4 + (x[2] \div 16)>>
  ELSE IF Len(x) = 3
       THEN <<x[1] * 4 + (x[2] \div 16), (x[2] % 16) * 16 + (x[3] \div 4)>>
  ELSE <<x[1] * 4 + (x[2] \div 16), (x[2] % 16) * 16 + (x[3] \div 4),
         (x[3] % 4) * 64 + x[4]>>
       \o Base64DecodeSextets(SubSeq(x, 5, Len(x)))

\* Buffer.from(token, 'base64'): decoding stops at the first padding character.
Base64Decode(t) ==
  LET stop == IF \E i \in 1..Len(t) : t[i] = Pad
              THEN (CHOOSE i \in 1..Len(t) : t[i] = Pad /\ \A j \in 1..(i - 1) : t[j] # Pad) - 1
              ELSE Len(t)
  IN Base64DecodeSextets(SubSeq(t, 1, stop))

(***************************************************************************)
(* String helpers of the token codec.                                      *)
(***************************************************************************)
RECURSIVE NumToStr(_)
\* Template-literal formatting of a non-negative integer: its decimal digits.
NumToStr(n) ==
  IF n < 10 THEN <<Digits[n + 1]>>
  ELSE Append(NumToStr(n \div 10), Digits[(n % 10) + 1])

RECURSIVE ParseDigits(_, _, _)
ParseDigits(s, i, acc) ==
  IF i > Len(s) \/ ~IsDigit(s[i]) THEN acc
  ELSE ParseDigits(s, i + 1, acc * 10 + DigitValue(s[i]))

\* parseInt(str, 10): the value of the leading run of digits, NaN without one.
ParseInt(s) ==
  IF Len(s) = 0 \/ ~IsDigit(s[1]) THEN NaN ELSE ParseDigits(s, 1, 0)

RECURSIVE SplitFrom(_, _, _)
SplitFrom(s, i, cur) ==
  IF i > Len(s) THEN <<cur>>
  ELSE IF s[i] = ":" THEN <<cur>> \o SplitFrom(s, i + 1, <<>>)
  ELSE SplitFrom(s, i + 1, Append(cur, s[i]))

\* decoded.split(':')
Split(s) == SplitFrom(s, 1, <<>>)

RECURSIVE Join(_)
\* parts.join(':')
Join(parts) ==
  IF Len(parts) = 0 THEN <<>>
  ELSE IF Len(parts) = 1 THEN parts[1]
  ELSE parts[1] \o <<":">> \o Join(Tail(parts))

RECURSIVE HexOf(_)
HexOf(b) ==
  IF Len(b) = 0 THEN <<>>
  ELSE <<HexDigits[(b[1] \div 16) + 1], HexDigits[(b[1] % 16) + 1]>> \o HexOf(Tail(b))

\* crypto.createHmac('sha256', ADMIN_SECRET).update(payload).digest('hex').
\* The keyed hash is idealised: a collision-free function of the payload into
\* hex strings, which nobody without ADMIN_SECRET can compute.
HmacHex(payload) == HexOf(ToBytes(payload))

(***************************************************************************)
(* Token codec.                                                            *)
(***************************************************************************)
\* issueUnlockToken(tmdb_id, userId, ttlSeconds) called when Date.now() = t.
issueUnlockToken(tmdb_id, userId, ttlSeconds, t) ==
  LET exp == t + ttlSeconds * 1000
      payload == tmdb_id \o <<":">> \o userId \o <<":">> \o NumToStr(exp)
      sig == HmacHex(payload)
  IN [token |-> Base64Encode(ToBytes(payload \o <<":">> \o sig)), expires_at |-> exp]

VerifyFail(err) == [ok |-> FALSE, err |-> err, tmdb_id |-> <<>>, userId |-> <<>>]

\* verifyUnlockToken(token) called when Date.now() = t.
verifyUnlockToken(token, t) ==
  LET decoded == FromBytes(Base64Decode(token))
      parts == Split(decoded)
  IN IF Len(parts) < 4 THEN VerifyFail("bad_format")
     ELSE LET tmdb_id == parts[1]
              userId == parts[2]
              expStr == parts[3]
              sig == Join(SubSeq(parts, 4, Len(parts)))
              payload == tmdb_id \o <<":">> \o userId \o <<":">> \o expStr
              expectedSig == HmacHex(payload)
              exp == ParseInt(expStr)
          IN IF expectedSig # sig THEN VerifyFail("bad_sig")
             \* Date.now() > NaN is false
             ELSE IF exp # NaN /\ t > exp THEN VerifyFail("expired")
             ELSE [ok |-> TRUE, err |-> "", tmdb_id |-> tmdb_id, userId |-> userId]

(***************************************************************************)
(* Bounds of the model.                                                    *)
(***************************************************************************)
\* Concurrent /unlock requests in flight.
NProcs == 2

\* Whole days the clock may run past its initial value.
MaxDays == 1

\* One-millisecond steps the clock of the token codec may take.
MaxMsSteps == 2

Procs == 1..NProcs

\* The clock starts on a UTC midnight.
T0 == DayMs

HalfDayMs == DayMs \div 2

TtlMs == UNLOCK_TTL_SECONDS * 1000

Users == {<<"u">>}

MovieIds == {<<"7">>, <<"8">>}

\* The bodies of /unlock requests: { adSuccess, adType }.
AdClaims ==
  { [adSuccess |-> FALSE, adType |-> "none"],
    [adSuccess |-> FALSE, adType |-> "interstitial"],
    [adSuccess |-> TRUE, adType |-> "interstitial"],
    [adSuccess |-> TRUE, adType |-> "rewarded"],
    [adSuccess |-> TRUE, adType |-> "banner"] }

(***************************************************************************)
(* Quota documents (collection user_quota).                                *)
(***************************************************************************)
QuotaDoc(dc, lr, lu, bu) ==
  [exists |-> TRUE, daily_count |-> dc, last_reset |-> lr,
   last_unlock_at |-> lu, blocked_until |-> bu]

NoQuota == [exists |-> FALSE, daily_count |-> 0, last_reset |-> Null,
            last_unlock_at |-> Null, blocked_until |-> Null]

\* The document ref.set(...) writes in getQuotaDocRef at server time t.
NewQuotaDoc(t) == QuotaDoc(0, t, Null, Null)

\* The most recent UTC midnight: Date.UTC(year, month, date, 0, 0, 0).
MidnightUTC(t) == t - (t % DayMs)

\* needsDailyReset(lastResetTimestamp) evaluated when the clock shows t.
needsDailyReset(lastResetTimestamp, t) ==
  IF lastResetTimestamp = Null THEN TRUE
  ELSE lastResetTimestamp < MidnightUTC(t)

\* qRef.update({ daily_count: 0, last_reset: serverTimestamp() })
ResetUpdate(doc, t) == [doc EXCEPT !.daily_count = 0, !.last_reset = t]

\* qRef.update({ daily_count: increment(1), last_unlock_at: serverTimestamp() })
IncrementUpdate(doc, t) ==
  [doc EXCEPT !.daily_count = doc.daily_count + 1, !.last_unlock_at = t]

\* qRef.update({ last_unlock_at: serverTimestamp() })
StampUpdate(doc, t) == [doc EXCEPT !.last_unlock_at = t]

(***************************************************************************)
(* Responses of /unlock.                                                   *)
(***************************************************************************)
NoToken == <<>>

NoResp ==
  [status |-> 0, error |-> "", token |-> NoToken, used_free_quota |-> FALSE,
   remaining_free |-> Null, monetized |-> FALSE, blocked_until |-> Null,
   requireInterstitial |-> FALSE]

ErrorResp(status, error) == [NoResp EXCEPT !.status = status, !.error = error]

CooldownResp(bu) ==
  [NoResp EXCEPT !.status = 429, !.error = "cooldown", !.blocked_until = bu]

FreeGrantResp(token, remaining) ==
  [NoResp EXCEPT !.status = 200, !.token = token, !.used_free_quota = TRUE,
                 !.remaining_free = remaining]

MonetizedGrantResp(token) ==
  [NoResp EXCEPT !.status = 200, !.token = token, !.monetized = TRUE]

ExhaustedResp ==
  [NoResp EXCEPT !.status = 402, !.error = "quota_exhausted",
                 !.requireInterstitial = TRUE]

NoReq == [tmdb_id |-> <<>>, userId |-> <<>>, adSuccess |-> FALSE, adType |-> "none"]

\* A deliberately wrong variant: the free-quota comparison is off by one.
UnlockBranchOffByOne(q, r, t) ==
  IF q.blocked_until # Null /\ q.blocked_until > t THEN "cooldown"
  ELSE IF q.daily_count <= FREE_DAILY_LIMIT /\ ~r.adSuccess THEN "free"
  ELSE IF r.adSuccess /\ r.adType = "interstitial" THEN "monetized"
  ELSE IF r.adSuccess /\ r.adType = "rewarded" THEN "monetized"
  ELSE "exhausted"

\* A deliberately wrong variant: the rewarded ad type is not recognised.
UnlockBranchNoRewarded(q, r, t) ==
  IF q.blocked_until # Null /\ q.blocked_until > t THEN "cooldown"
  ELSE IF q.daily_count < FREE_DAILY_LIMIT /\ ~r.adSuccess THEN "free"
  ELSE IF r.adSuccess /\ r.adType = "interstitial" THEN "monetized"
  ELSE "exhausted"

\* A deliberately wrong variant: free quota is used whether or not an ad is claimed.
UnlockBranchFreeFirst(q, r, t) ==
  IF q.blocked_until # Null /\ q.blocked_until > t THEN "cooldown"
  ELSE IF q.daily_count < FREE_DAILY_LIMIT THEN "free"
  ELSE IF r.adSuccess /\ r.adType = "interstitial" THEN "monetized"
  ELSE IF r.adSuccess /\ r.adType = "rewarded" THEN "monetized"
  ELSE "exhausted"

\* The branch of the /unlock handler a request r takes on its local copy q of
\* the quota document, when the clock shows t.
UnlockBranch(q, r, t) ==
  IF q.blocked_until # Null /\ q.blocked_until > t THEN "cooldown"
  ELSE IF q.daily_count < FREE_DAILY_LIMIT /\ ~r.adSuccess THEN "free"
  ELSE IF r.adSuccess /\ r.adType = "interstitial" THEN "monetized"
  ELSE IF r.adSuccess /\ r.adType = "rewarded" THEN "monetized"
  ELSE "exhausted"

(***************************************************************************)
(* The /unlock handler, one action per awaited store call.                 *)
(***************************************************************************)
Unused == UNCHANGED <<movies, vresp, issued, checked>>

\* The request arrives; a missing userId is answered at once.
StartUnlock(p, tmdb_id, userId, claim) ==
  /\ pc[p] = "idle"
  /\ req' = [req EXCEPT ![p] = [tmdb_id |-> tmdb_id, userId |-> userId,
                                adSuccess |-> claim.adSuccess, adType |-> claim.adType]]
  /\ IF userId = <<>>
     THEN /\ pc' = [pc EXCEPT ![p] = "done"]
          /\ resp' = [resp EXCEPT ![p] = ErrorResp(400, "userId required")]
     ELSE /\ pc' = [pc EXCEPT ![p] = "getQuotaDocRef"]
          /\ UNCHANGED resp
  /\ UNCHANGED <<now, quota, qdoc>>
  /\ Unused

\* getQuotaDocRef: snap = await ref.get()
GetQuotaDoc(p) ==
  /\ pc[p] = "getQuotaDocRef"
  /\ pc' = [pc EXCEPT ![p] = IF quota[req[p].userId].exists THEN "snapshot" ELSE "create"]
  /\ UNCHANGED <<now, quota, req, qdoc, resp>>
  /\ Unused

\* getQuotaDocRef: await ref.set({...}), reached when the snapshot did not exist.
CreateQuotaDoc(p) ==
  /\ pc[p] = "create"
  /\ quota' = [quota EXCEPT ![req[p].userId] = NewQuotaDoc(now)]
  /\ pc' = [pc EXCEPT ![p] = "snapshot"]
  /\ UNCHANGED <<now, req, qdoc, resp>>
  /\ Unused

\* qSnap = await qRef.get(); quota = qSnap.exists ? qSnap.data() : null
Snapshot(p) ==
  /\ pc[p] = "snapshot"
  /\ IF quota[req[p].userId].exists
     THEN /\ qdoc' = [qdoc EXCEPT ![p] = quota[req[p].userId]]
          /\ pc' = [pc EXCEPT ![p] = "reset"]
          /\ UNCHANGED resp
     ELSE \* quota is null: quota.last_reset throws, the handler answers 500
          /\ pc' = [pc EXCEPT ![p] = "done"]
          /\ resp' = [resp EXCEPT ![p] = ErrorResp(500, "exception")]
          /\ UNCHANGED qdoc
  /\ UNCHANGED <<now, quota, req>>
  /\ Unused

\* if (needsDailyReset(quota.last_reset)) { await qRef.update(...); quota.daily_count = 0 }
ResetIfNeeded(p) ==
  /\ pc[p] = "reset"
  /\ IF needsDailyReset(qdoc[p].last_reset, now)
     THEN /\ quota' = [quota EXCEPT ![req[p].userId] = ResetUpdate(@, now)]
          /\ qdoc' = [qdoc EXCEPT ![p].daily_count = 0]
     ELSE UNCHANGED <<quota, qdoc>>
  /\ pc' = [pc EXCEPT ![p] = "decide"]
  /\ UNCHANGED <<now, req, resp>>
  /\ Unused

\* The cooldown check, the free-quota path, the two monetized paths and the
\* refusal, each with its store update and its response.
Decide(p) ==
  /\ pc[p] = "decide"
  /\ LET q == qdoc[p]
         r == req[p]
         u == r.userId
         branch == UnlockBranch(q, r, now)
         token == issueUnlockToken(r.tmdb_id, u, UNLOCK_TTL_SECONDS, now).token
     IN IF branch = "cooldown"
        THEN /\ resp' = [resp EXCEPT ![p] = CooldownResp(q.blocked_until)]
             /\ UNCHANGED quota
        ELSE IF branch = "free"
        THEN /\ quota' = [quota EXCEPT ![u] = IncrementUpdate(@, now)]
             /\ resp' = [resp EXCEPT ![p] =
                           FreeGrantResp(token, FREE_DAILY_LIMIT - (q.daily_count + 1))]
        ELSE IF branch = "monetized"
        THEN /\ quota' = [quota EXCEPT ![u] = StampUpdate(@, now)]
             /\ resp' = [resp EXCEPT ![p] = MonetizedGrantResp(token)]
        ELSE /\ resp' = [resp EXCEPT ![p] = ExhaustedResp]
             /\ UNCHANGED quota
  /\ pc' = [pc EXCEPT ![p] = "done"]
  /\ UNCHANGED <<now, req, qdoc>>
  /\ Unused

\* The response has been sent; the handler's locals are gone.
Finish(p) ==
  /\ pc[p] = "done"
  /\ pc' = [pc EXCEPT ![p] = "idle"]
  /\ req' = [req EXCEPT ![p] = NoReq]
  /\ qdoc' = [qdoc EXCEPT ![p] = NoQuota]
  /\ resp' = [resp EXCEPT ![p] = NoResp]
  /\ UNCHANGED <<now, quota>>
  /\ Unused

\* Time passes: the clock moves by d to one of the given instants.
Tick(d, instants) ==
  /\ now + d \in instants
  /\ now' = now + d
  /\ UNCHANGED <<quota, movies, pc, req, qdoc, resp, vresp, issued, checked>>

\* Half-day steps, for day changes and cooldowns.
DayInstants == { T0 + k * HalfDayMs : k \in 0..(2 * MaxDays + 1) }

\* Steps of one millisecond and of one token lifetime less a millisecond.
CodecInstants == { T0 + a + b * (TtlMs - 1) : a \in 0..MaxMsSteps, b \in 0..1 }

\* Steps of one millisecond and of one token lifetime.
GateInstants == { T0 + a + b * TtlMs : a \in 0..(MaxMsSteps - 1), b \in 0..1 }

(***************************************************************************)
(* Initial states: a clock on a UTC midnight, a store that holds for the   *)
(* subject no quota document or one left by earlier requests, no request   *)
(* in flight.                                                              *)
(***************************************************************************)
\* No route of the server writes blocked_until: a cooldown is set in the store
\* from outside, so the documents found at start include blocked ones.
InitQuotaDocs ==
  {NoQuota} \cup
  { QuotaDoc(dc, lr, Null, bu) :
      dc \in 0..FREE_DAILY_LIMIT, lr \in {T0 - 1, T0}, bu \in {Null, T0 + HalfDayMs} }

(***************************************************************************)
(* Movies (collection movies), /sync, /admin/publish and /validate-unlock. *)
(***************************************************************************)
\* A movie document.  stamps abstracts its two server timestamps to the order
\* in which they were written last: the fields synced_at and published_at that
\* are set, the one written latest at the end.
NoMovie == [exists |-> FALSE, published |-> FALSE, links |-> <<>>, stamps |-> <<>>]

\* The links the admin post of movie m carries in its JSON comment.
PostLinks(m) == <<<<"l">> \o m>>

\* field: FieldValue.serverTimestamp() written now, the other timestamps kept.
Stamp(stamps, field) == SelectSeq(stamps, LAMBDA f : f # field) \o <<field>>

\* A deliberately wrong variant: the merge leaves the published flag as it is.
SyncUpsertKeepsPublished(m) ==
  /\ movies' = [movies EXCEPT ![m] =
                  [exists |-> TRUE, published |-> movies[m].published,
                   links |-> PostLinks(m), stamps |-> Stamp(movies[m].stamps, "synced_at")]]
  /\ UNCHANGED <<now, quota, pc, req, qdoc, resp, vresp, issued, checked>>

\* /sync, one post of the loop:
\* docRef.set({..., links, published: false, synced_at: serverTimestamp()}, { merge: true })
SyncUpsert(m) ==
  /\ movies' = [movies EXCEPT ![m] =
                  [exists |-> TRUE, published |-> FALSE,
                   links |-> PostLinks(m), stamps |-> Stamp(movies[m].stamps, "synced_at")]]
  /\ UNCHANGED <<now, quota, pc, req, qdoc, resp, vresp, issued, checked>>

\* /admin/publish/:tmdb_id: 404 without the document, else
\* update({ published: true, published_at: serverTimestamp() })
PublishMovie(m) ==
  /\ movies[m].exists
  /\ movies' = [movies EXCEPT ![m].published = TRUE,
                              ![m].stamps = Stamp(@, "published_at")]
  /\ UNCHANGED <<now, quota, pc, req, qdoc, resp, vresp, issued, checked>>

NoVResp ==
  [status |-> 0, error |-> "", reason |-> "", links |-> <<>>,
   tmdb_id |-> <<>>, token |-> NoToken]

VResp(status, error, reason, links) ==
  [NoVResp EXCEPT !.status = status, !.error = error, !.reason = reason, !.links = links]

\* A deliberately wrong variant: the published flag is not looked at.
ValidateResultUnpublished(token, tmdb_id, t, store) ==
  IF token = NoToken THEN VResp(400, "token required", "", <<>>)
  ELSE LET v == verifyUnlockToken(token, t)
       IN IF ~v.ok THEN VResp(403, "invalid_token", v.err, <<>>)
          ELSE IF v.tmdb_id # tmdb_id THEN VResp(403, "token_mismatch", "", <<>>)
          ELSE IF ~store[tmdb_id].exists THEN VResp(404, "movie not found", "", <<>>)
          ELSE VResp(200, "", "", store[tmdb_id].links)

\* The response of /validate-unlock/:tmdb_id for the body { token }, when the
\* clock shows t and the movies collection is store.
ValidateResult(token, tmdb_id, t, store) ==
  IF token = NoToken THEN VResp(400, "token required", "", <<>>)
  ELSE LET v == verifyUnlockToken(token, t)
       IN IF ~v.ok THEN VResp(403, "invalid_token", v.err, <<>>)
          ELSE IF v.tmdb_id # tmdb_id THEN VResp(403, "token_mismatch", "", <<>>)
          ELSE IF ~store[tmdb_id].exists THEN VResp(404, "movie not found", "", <<>>)
          ELSE IF ~store[tmdb_id].published THEN VResp(403, "not published", "", <<>>)
          ELSE VResp(200, "", "", store[tmdb_id].links)

\* /validate-unlock/:tmdb_id; the response is kept with the request it answers.
ValidateUnlock(token, tmdb_id) ==
  /\ vresp' = [ValidateResult(token, tmdb_id, now, movies) EXCEPT
                 !.tmdb_id = tmdb_id, !.token = token]
  /\ UNCHANGED <<now, quota, movies, pc, req, qdoc, resp, issued, checked>>

\* A token a client rewrote to name movie "8" instead of movie "7": the first
\* two sextets of the base64 text carry the first character of the payload.
Retarget(token) ==
  IF Len(token) < 2 THEN token
  ELSE [token EXCEPT ![1] = 14, ![2] = token[2] % 16]

\* The tokens a client can present: none, the ones it was given, rewritten ones.
PresentableTokens ==
  {NoToken} \cup { resp[p].token : p \in Procs }
            \cup { Retarget(resp[p].token) : p \in Procs }

(***************************************************************************)
(* The token codec on its own: issue, let time pass, verify.               *)
(***************************************************************************)
\* Movie and user ids, some of which contain the delimiter of the payload.
CodecMovieIds == {<<"7">>, <<"7", ":", "a">>}

CodecUserIds == {<<"u">>, <<"u", ":", "b">>}

NoIssued == [tmdb_id |-> <<>>, userId |-> <<>>, at |-> 0, token |-> NoToken, expires_at |-> 0]

NoChecked ==
  [at |-> 0, token |-> NoToken, ok |-> FALSE, err |-> "", tmdb_id |-> <<>>, userId |-> <<>>]

\* issueUnlockToken(tmdb_id, userId) with the default lifetime.
IssueToken(tmdb_id, userId) ==
  /\ LET t == issueUnlockToken(tmdb_id, userId, UNLOCK_TTL_SECONDS, now)
     IN issued' = [tmdb_id |-> tmdb_id, userId |-> userId, at |-> now,
                   token |-> t.token, expires_at |-> t.expires_at]
  /\ UNCHANGED <<now, quota, movies, pc, req, qdoc, resp, vresp, checked>>

\* verifyUnlockToken(token) of the token issued last.
VerifyToken ==
  /\ issued.token # NoToken
  /\ LET v == verifyUnlockToken(issued.token, now)
     IN checked' = [at |-> now, token |-> issued.token, ok |-> v.ok, err |-> v.err,
                    tmdb_id |-> v.tmdb_id, userId |-> v.userId]
  /\ UNCHANGED <<now, quota, movies, pc, req, qdoc, resp, vresp, issued>>

Init ==
  /\ now = T0
  /\ quota \in [Users -> InitQuotaDocs]
  /\ movies = [m \in MovieIds |-> NoMovie]
  /\ pc = [p \in Procs |-> "idle"]
  /\ req = [p \in Procs |-> NoReq]
  /\ qdoc = [p \in Procs |-> NoQuota]
  /\ resp = [p \in Procs |-> NoResp]
  /\ vresp = NoVResp
  /\ issued = NoIssued
  /\ checked = NoChecked

UnlockStep(p) ==
  \/ GetQuotaDoc(p)
  \/ CreateQuotaDoc(p)
  \/ Snapshot(p)
  \/ ResetIfNeeded(p)
  \/ Decide(p)
  \/ Finish(p)

\* The request bodies of the concurrent specification.
ConcurrentClaims ==
  { [adSuccess |-> FALSE, adType |-> "none"],
    [adSuccess |-> TRUE, adType |-> "interstitial"] }

\* Requests of one subject for one movie, in any interleaving.
Next ==
  \/ \E p \in Procs, c \in ConcurrentClaims : StartUnlock(p, <<"7">>, <<"u">>, c)
  \/ \E p \in Procs : UnlockStep(p)
  \/ Tick(HalfDayMs, DayInstants)

Spec == Init /\ [][Next]_vars

NoneInFlight == \A q \in Procs : pc[q] = "idle"

\* Requests processed one after another.
NextSeq ==
  \/ \E p \in Procs, m \in MovieIds, u \in Users \cup {<<>>}, c \in AdClaims :
       NoneInFlight /\ StartUnlock(p, m, u, c)
  \/ \E p \in Procs : UnlockStep(p)
  \/ Tick(HalfDayMs, DayInstants)

SpecSeq == Init /\ [][NextSeq]_vars

\* The store holds no quota document yet.
InitEmptyStore == Init /\ quota = [u \in Users |-> NoQuota]

NextCodec ==
  \/ \E m \in CodecMovieIds, u \in CodecUserIds : IssueToken(m, u)
  \/ VerifyToken
  \/ Tick(1, CodecInstants)
  \/ Tick(TtlMs - 1, CodecInstants)

SpecCodec == InitEmptyStore /\ [][NextCodec]_vars

\* The movies the admin blog holds a post for.
AdminPosts == {<<"7">>}

\* Unlocks of movie "7" one at a time, the admin's sync and publish, and
\* validation of any presentable token against either movie id.
NextGate ==
  \/ \E p \in Procs, c \in ConcurrentClaims :
       NoneInFlight /\ StartUnlock(p, <<"7">>, <<"u">>, c)
  \/ \E p \in Procs : UnlockStep(p)
  \/ \E m \in AdminPosts : SyncUpsert(m)
  \/ \E m \in MovieIds : PublishMovie(m)
  \/ \E t \in PresentableTokens, m \in MovieIds : ValidateUnlock(t, m)
  \/ Tick(1, GateInstants)
  \/ Tick(TtlMs, GateInstants)

SpecGate == InitEmptyStore /\ [][NextGate]_vars

(***************************************************************************)
(* Properties.                                                             *)
(***************************************************************************)
\* The subject of request slot p.
Subject(p) == req[p].userId

\* blocked_until is set and still in the future at time t.
InCooldown(doc, t) == doc.blocked_until # Null /\ doc.blocked_until > t

\* The step in which the handler of slot p decides and answers.
DecideStep(p) == pc[p] = "decide" /\ pc'[p] = "done"

\* C1: under any interleaving of concurrent /unlock requests of one subject
\* the stored daily_count never exceeds FREE_DAILY_LIMIT.
C1_DailyCountWithinLimit ==
  \A u \in Users : quota[u].daily_count <= FREE_DAILY_LIMIT

\* C2: a request refused with 'cooldown' has changed no field of the subject's
\* quota record: with requests processed one after another, the stored record
\* still is the one the handler read (a reset moves last_reset to the time of
\* the reset, past the value read).
C2_CooldownRefusalChangesNothing ==
  \A p \in Procs :
    (pc[p] = "done" /\ resp[p].error = "cooldown") =>
      /\ quota[Subject(p)].last_reset = qdoc[p].last_reset
      /\ quota[Subject(p)].daily_count = qdoc[p].daily_count
      /\ quota[Subject(p)].last_unlock_at = qdoc[p].last_unlock_at
      /\ quota[Subject(p)].blocked_until = qdoc[p].blocked_until

\* C3: requests of one subject processed one after another, without an ad
\* claim, the subject not in cooldown and its record reset for the current UTC
\* day: with daily_count = FREE_DAILY_LIMIT - 1 the request is granted via free
\* quota with remaining_free = 0 and leaves daily_count = FREE_DAILY_LIMIT; with
\* daily_count = FREE_DAILY_LIMIT it is refused with 'quota_exhausted'
\* (requireInterstitial) and leaves the record as it is; the count is never
\* above FREE_DAILY_LIMIT.
C3_LastFreeThenExhausted ==
  [][\A p \in Procs :
       (/\ DecideStep(p)
        /\ ~req[p].adSuccess
        /\ ~InCooldown(quota[Subject(p)], now)
        /\ ~needsDailyReset(quota[Subject(p)].last_reset, now)) =>
         /\ quota[Subject(p)].daily_count <= FREE_DAILY_LIMIT
         /\ quota[Subject(p)].daily_count = FREE_DAILY_LIMIT - 1 =>
              /\ resp'[p].status = 200
              /\ resp'[p].used_free_quota
              /\ resp'[p].remaining_free = 0
              /\ resp'[p].token # NoToken
              /\ quota'[Subject(p)].daily_count = FREE_DAILY_LIMIT
         /\ quota[Subject(p)].daily_count = FREE_DAILY_LIMIT =>
              /\ resp'[p] = ExhaustedResp
              /\ quota' = quota]_vars

\* A request without an ad claim has been refused with 'quota_exhausted' after
\* an unlock of the same day filled the quota.
C3_Witness ==
  \E p \in Procs :
    /\ pc[p] = "done"
    /\ ~req[p].adSuccess
    /\ resp[p] = ExhaustedResp
    /\ quota[Subject(p)].daily_count = FREE_DAILY_LIMIT
    /\ quota[Subject(p)].last_unlock_at # Null
    /\ ~needsDailyReset(quota[Subject(p)].last_reset, now)

\* C4: a request that claims an ad of type 'interstitial' or 'rewarded', its
\* subject not in cooldown, is granted whatever daily_count is, with
\* monetized = true and used_free_quota = false, and the grant changes nothing
\* of the quota record but last_unlock_at.
C4_MonetizedGrantKeepsCount ==
  [][\A p \in Procs :
       (/\ DecideStep(p)
        /\ req[p].adSuccess
        /\ req[p].adType \in {"interstitial", "rewarded"}
        /\ ~InCooldown(quota[Subject(p)], now)) =>
         /\ resp'[p].status = 200
         /\ resp'[p].monetized
         /\ ~resp'[p].used_free_quota
         /\ resp'[p].token # NoToken
         /\ quota' = [quota EXCEPT ![Subject(p)].last_unlock_at = now]]_vars

\* A 'rewarded' request has been granted on the monetized path with the free
\* quota used up.
C4_Witness ==
  \E p \in Procs :
    /\ pc[p] = "done"
    /\ req[p].adSuccess
    /\ req[p].adType = "rewarded"
    /\ resp[p].monetized
    /\ quota[Subject(p)].daily_count = FREE_DAILY_LIMIT
    /\ quota[Subject(p)].last_unlock_at = now

\* C5: daily_count is reset once per UTC day: a request that comes to its
\* reset step when the stored record has been reset today already does not
\* reset it again.
C5_ResetOncePerDay ==
  [][\A p \in Procs :
       (/\ pc[p] = "reset"
        /\ pc'[p] = "decide"
        /\ ~needsDailyReset(quota[Subject(p)].last_reset, now)) =>
         quota' = quota]_vars

\* Whether a string holds the payload delimiter.
HasDelimiter(s) == \E i \in 1..Len(s) : s[i] = ":"

\* C6: a token issued at t0 verifies at every t < t0 + ttl*1000 and fails with
\* 'expired' at every t >= t0 + ttl*1000 (stated for ids without the delimiter).
C6_ExpiryBoundary ==
  (/\ checked.token # NoToken
   /\ checked.token = issued.token
   /\ ~HasDelimiter(issued.tmdb_id)
   /\ ~HasDelimiter(issued.userId)) =>
     /\ checked.at < issued.at + UNLOCK_TTL_SECONDS * 1000 => checked.ok
     /\ checked.at >= issued.at + UNLOCK_TTL_SECONDS * 1000 =>
          (~checked.ok /\ checked.err = "expired")

\* C7: verifying an issued token before its expiry succeeds and gives back the
\* resource id and the subject id it was issued for, whatever the ids hold.
C7_RoundTrip ==
  (/\ checked.token # NoToken
   /\ checked.token = issued.token
   /\ checked.at < issued.at + UNLOCK_TTL_SECONDS * 1000) =>
     /\ checked.ok
     /\ checked.tmdb_id = issued.tmdb_id
     /\ checked.userId = issued.userId

C9_FreeQuotaWinsOverAd ==
  [][\A p \in Procs :
       (/\ DecideStep(p)
        /\ ~InCooldown(quota[Subject(p)], now)
        /\ req[p].adSuccess) =>
         /\ quota[Subject(p)].daily_count < FREE_DAILY_LIMIT =>
              /\ resp'[p].used_free_quota
              /\ quota'[Subject(p)].daily_count = quota[Subject(p)].daily_count + 1
         /\ (req[p].adType \notin {"interstitial", "rewarded"} /\ resp'[p] = ExhaustedResp) =>
              quota[Subject(p)].daily_count >= FREE_DAILY_LIMIT]_vars

\* C9 amended: for a subject not in cooldown, free quota is used exactly by the
\* requests that carry no ad claim while the daily_count the handler read (after
\* the reset) is below FREE_DAILY_LIMIT, and they are counted; a request that
\* claims an ad never uses free quota: with type 'interstitial' or 'rewarded' it
\* is granted on the monetized path, also when free quota is available, with
\* any other type it is refused with 'quota_exhausted' whether or not free
\* quota is available; a request with no ad claim and no free quota is refused
\* with 'quota_exhausted'.
C9_FreeQuotaOnlyWithoutAdClaim ==
  [][\A p \in Procs :
       (DecideStep(p) /\ ~InCooldown(qdoc[p], now)) =>
         LET free == qdoc[p].daily_count < FREE_DAILY_LIMIT
             known == req[p].adType \in {"interstitial", "rewarded"}
         IN /\ resp'[p].used_free_quota <=> (free /\ ~req[p].adSuccess)
            /\ resp'[p].used_free_quota =>
                 /\ resp'[p].status = 200
                 /\ quota'[Subject(p)].daily_count = quota[Subject(p)].daily_count + 1
            /\ resp'[p].monetized <=> (req[p].adSuccess /\ known)
            /\ resp'[p].monetized =>
                 /\ resp'[p].status = 200
                 /\ quota'[Subject(p)].daily_count = quota[Subject(p)].daily_count
            /\ (resp'[p] = ExhaustedResp) <=>
                 \/ req[p].adSuccess /\ ~known
                 \/ ~req[p].adSuccess /\ ~free]_vars

\* A request that claims an ad of an unrecognised type has been refused with
\* 'quota_exhausted' while free quota was available.
C9_Witness ==
  \E p \in Procs :
    /\ pc[p] = "done"
    /\ req[p].adSuccess
    /\ req[p].adType = "banner"
    /\ resp[p] = ExhaustedResp
    /\ quota[Subject(p)].daily_count < FREE_DAILY_LIMIT
    /\ ~InCooldown(quota[Subject(p)], now)

\* C10: the set of getQuotaDocRef leaves a record that exists unmodified.
C10_CreateKeepsExistingRecord ==
  [][\A p \in Procs :
       (/\ pc[p] = "create"
        /\ pc'[p] = "snapshot"
        /\ quota[Subject(p)].exists) =>
         quota' = quota]_vars

\* The timestamp of a movie document that was written last.
LastStamp(doc) == IF doc.stamps = <<>> THEN "none" ELSE doc.stamps[Len(doc.stamps)]

\* C11: a movie's published flag is true only if its last admin write is a
\* publish, no sync upsert having touched it since; and while the last write
\* of a movie is a sync upsert, /validate-unlock releases no links for it and
\* answers a token that verifies for it with 'not published'.
C11_SyncUnpublishes ==
  /\ [](\A m \in MovieIds :
          movies[m].published => (movies[m].exists /\ LastStamp(movies[m]) = "published_at"))
  /\ [][\A m \in MovieIds :
          (movies'[m] # movies[m] /\ LastStamp(movies'[m]) = "synced_at") =>
            ~movies'[m].published]_vars
  /\ [][(vresp' # vresp) =>
          LET m == vresp'.tmdb_id
              v == verifyUnlockToken(vresp'.token, now)
          IN LastStamp(movies[m]) = "synced_at" =>
               /\ vresp'.status # 200
               /\ vresp'.links = <<>>
               /\ (vresp'.token # NoToken /\ v.ok /\ v.tmdb_id = m) =>
                    vresp'.error = "not published"]_vars

\* Movie "7" was published and then synced again, and a token that verifies
\* for it has been answered 'not published'.
C11_Witness ==
  /\ movies[<<"7">>].stamps = <<"published_at", "synced_at">>
  /\ ~movies[<<"7">>].published
  /\ movies[<<"7">>].links # <<>>
  /\ vresp.tmdb_id = <<"7">>
  /\ vresp.error = "not published"
  /\ vresp.links = <<>>
  /\ verifyUnlockToken(vresp.token, now).ok

====
